---- MODULE Spec2Model ----
(***************************************************************************)
(* The statistics tasks of labe (python/labe/stats.py) run by a            *)
(* dependency-graph scheduler: requires() edges, fingerprinted output      *)
(* paths, skip-if-exists caching, shellout to a scratch file followed by a *)
(* move into the output path, and the "current" symlink of each family.    *)
(***************************************************************************)
EXTENDS Integers, Sequences, FiniteSets, TLC

(***************************************************************************)
(* Bounds of the model.                                                     *)
(***************************************************************************)
\* number of requests made of the scheduler in one behaviour
MaxRequests == 2
\* size of the worker pool
Workers == 2
\* letters of the DOI alphabet; a DOI is one character, upper or lower case
AlphabetSize == 2
\* rows of a citation dataset drawn as the input of the pipelines
MaxRows == 3
\* rows of an identifier mapping drawn as the input of the pipelines
MaxMapped == 2
\* rows of the citation dataset drawn for a request that joins it with an
\* identifier mapping
MaxJoined == 1

(***************************************************************************)
(* DOIs, lines and the text utilities of the shell pipelines.              *)
(* A DOI is the byte code of its single character: the upper case letters  *)
(* are 1..AlphabetSize and the lower case letters follow them, as in       *)
(* ASCII, so that LC_ALL=C byte order is the order of the integers.        *)
(***************************************************************************)
UpperCodes == 1..AlphabetSize
LowerCodes == (AlphabetSize + 1)..(2 * AlphabetSize)
DOIs == UpperCodes \cup LowerCodes

\* cut -f k (or cut -d, -f k): column k of every row
Cut(rows, k) == [i \in 1..Len(rows) |-> rows[i][k]]

\* tr [:upper:] [:lower:] on one character
LowerChar(c) == IF c \in UpperCodes THEN c + AlphabetSize ELSE c

\* tr [:upper:] [:lower:] on every line
TrLower(lines) == [i \in 1..Len(lines) |-> LowerChar(lines[i])]

\* insert x into an ascending sequence, after the lines equal to it
RECURSIVE Insert(_, _)
Insert(x, s) ==
    IF s = <<>> THEN <<x>>
    ELSE IF x < Head(s) THEN <<x>> \o s
    ELSE <<Head(s)>> \o Insert(x, Tail(s))

\* LC_ALL=C sort: ascending byte order, duplicates kept
RECURSIVE Sort(_)
Sort(lines) ==
    IF lines = <<>> THEN <<>>
    ELSE Insert(Head(lines), Sort(Tail(lines)))

\* LC_ALL=C uniq: drops a line equal to the line before it
RECURSIVE Uniq(_)
Uniq(lines) ==
    IF Len(lines) <= 1 THEN lines
    ELSE IF lines[1] = lines[2] THEN Uniq(Tail(lines))
    ELSE <<Head(lines)>> \o Uniq(Tail(lines))

\* LC_ALL=C sort -u
SortU(lines) == Uniq(Sort(lines))

\* number of leading lines of s equal to x
RECURSIVE RunLength(_, _)
RunLength(x, s) ==
    IF s = <<>> \/ Head(s) # x THEN 0
    ELSE 1 + RunLength(x, Tail(s))

\* LC_ALL=C uniq -c: one row <<count, line>> per run of equal adjacent lines
RECURSIVE UniqC(_)
UniqC(lines) ==
    IF lines = <<>> THEN <<>>
    ELSE LET n == RunLength(Head(lines), lines)
         IN  <<(<<n, Head(lines)>>)>> \o UniqC(SubSeq(lines, n + 1, Len(lines)))

\* the order of sort -nr on the rows of uniq -c: greater count first, and
\* among equal counts the greater line first (the last-resort comparison,
\* reversed as well)
RowBefore(r, q) == r[1] > q[1] \/ (r[1] = q[1] /\ r[2] > q[2])

RECURSIVE InsertRow(_, _)
InsertRow(r, s) ==
    IF s = <<>> THEN <<r>>
    ELSE IF RowBefore(r, Head(s)) THEN <<r>> \o s
    ELSE <<Head(s)>> \o InsertRow(r, Tail(s))

\* LC_ALL=C sort -nr
RECURSIVE SortNR(_)
SortNR(rows) ==
    IF rows = <<>> THEN <<>>
    ELSE InsertRow(Head(rows), SortNR(Tail(rows)))

\* LC_ALL=C comm -12: the two-pointer walk over two inputs, printing the
\* lines found in both; it compares heads only, whatever the inputs' order
RECURSIVE Comm12(_, _)
Comm12(a, b) ==
    IF a = <<>> \/ b = <<>> THEN <<>>
    ELSE IF Head(a) = Head(b) THEN <<Head(a)>> \o Comm12(Tail(a), Tail(b))
    ELSE IF Head(a) < Head(b) THEN Comm12(Tail(a), b)
    ELSE Comm12(a, Tail(b))

\* ascending with no two lines equal: sorted and deduplicated
StrictlySorted(lines) == \A i \in 1..(Len(lines) - 1) : lines[i] < lines[i + 1]

(***************************************************************************)
(* Tasks: a family (the class) and its date parameter.                     *)
(***************************************************************************)
\* the dataset source URLs the configuration may name
Urls == {"u1", "u2"}
\* the values of the date parameter
Dates == {"2022-02-02", "2022-02-03"}
NoDate == "none"
NoUrl == "none"

Task(f) == [family |-> f, date |-> NoDate]
DatedTask(f, d) == [family |-> f, date |-> d]

\* the upstream producers, imported from labe.tasks
ProducerFamilies == {"OpenCitationsSingleFile", "IdMappingTable"}
\* the families of stats.py whose output is named after the dataset URL
UrlFamilies ==
    {"OpenCitationsSourceDOI", "OpenCitationsTargetDOI", "OpenCitationsCitedCount",
     "OpenCitationsInboundStats", "OpenCitationsUniqueDOI"}
\* the families of stats.py with a date parameter
DatedFamilies == {"IndexMappedDOI", "StatsCommonDOI"}
StatsFamilies == UrlFamilies \cup DatedFamilies
Families == ProducerFamilies \cup StatsFamilies

StatsTasks ==
    {Task(f) : f \in UrlFamilies} \cup {DatedTask(f, d) : f \in DatedFamilies, d \in Dates}
ProducerTasks ==
    {Task("OpenCitationsSingleFile")} \cup {DatedTask("IdMappingTable", d) : d \in Dates}
Tasks == StatsTasks \cup ProducerTasks

\* requires() of OpenCitationsCitedCount naming the task that requires it
RequiresCyclic(t) ==
    CASE t.family = "OpenCitationsSourceDOI" ->
            [input |-> Task("OpenCitationsSingleFile")]
      [] t.family = "OpenCitationsTargetDOI" ->
            [input |-> Task("OpenCitationsSingleFile")]
      [] t.family = "OpenCitationsCitedCount" ->
            [input |-> Task("OpenCitationsInboundStats")]
      [] t.family = "OpenCitationsInboundStats" ->
            [input |-> Task("OpenCitationsCitedCount")]
      [] t.family = "OpenCitationsUniqueDOI" ->
            [s |-> Task("OpenCitationsSourceDOI"), t |-> Task("OpenCitationsTargetDOI")]
      [] t.family = "IndexMappedDOI" ->
            [input |-> DatedTask("IdMappingTable", t.date)]
      [] t.family = "StatsCommonDOI" ->
            [index |-> DatedTask("IndexMappedDOI", t.date),
             oci |-> Task("OpenCitationsUniqueDOI")]
      [] OTHER -> <<>>

\* the default of the date parameter: datetime.date.today()
Today == "2022-02-03"

\* requires() of StatsCommonDOI not passing its date on: IndexMappedDOI()
\* takes the default
RequiresToday(t) ==
    CASE t.family = "OpenCitationsSourceDOI" ->
            [input |-> Task("OpenCitationsSingleFile")]
      [] t.family = "OpenCitationsTargetDOI" ->
            [input |-> Task("OpenCitationsSingleFile")]
      [] t.family = "OpenCitationsCitedCount" ->
            [input |-> Task("OpenCitationsTargetDOI")]
      [] t.family = "OpenCitationsInboundStats" ->
            [input |-> Task("OpenCitationsCitedCount")]
      [] t.family = "OpenCitationsUniqueDOI" ->
            [s |-> Task("OpenCitationsSourceDOI"), t |-> Task("OpenCitationsTargetDOI")]
      [] t.family = "IndexMappedDOI" ->
            [input |-> DatedTask("IdMappingTable", t.date)]
      [] t.family = "StatsCommonDOI" ->
            [index |-> DatedTask("IndexMappedDOI", Today),
             oci |-> Task("OpenCitationsUniqueDOI")]
      [] OTHER -> <<>>

\* requires() with the second entry of OpenCitationsUniqueDOI naming the
\* class of the first
RequiresCopyPaste(t) ==
    CASE t.family \in {"OpenCitationsSourceDOI", "OpenCitationsTargetDOI"} ->
            [input |-> Task("OpenCitationsSingleFile")]
      [] t.family = "OpenCitationsCitedCount" ->
            [input |-> Task("OpenCitationsTargetDOI")]
      [] t.family = "OpenCitationsInboundStats" ->
            [input |-> Task("OpenCitationsCitedCount")]
      [] t.family = "OpenCitationsUniqueDOI" ->
            [s |-> Task("OpenCitationsSourceDOI"), t |-> Task("OpenCitationsSourceDOI")]
      [] t.family = "IndexMappedDOI" ->
            [input |-> DatedTask("IdMappingTable", t.date)]
      [] t.family = "StatsCommonDOI" ->
            [index |-> DatedTask("IndexMappedDOI", t.date),
             oci |-> Task("OpenCitationsUniqueDOI")]
      [] OTHER -> <<>>

\* requires(): the declared dependencies of a task, by the name run() reads
\* them under ("input" where requires() returns a single task)
Requires(t) ==
    CASE t.family = "OpenCitationsSourceDOI" ->
            [input |-> Task("OpenCitationsSingleFile")]
      [] t.family = "OpenCitationsTargetDOI" ->
            [input |-> Task("OpenCitationsSingleFile")]
      [] t.family = "OpenCitationsCitedCount" ->
            [input |-> Task("OpenCitationsTargetDOI")]
      [] t.family = "OpenCitationsInboundStats" ->
            [input |-> Task("OpenCitationsCitedCount")]
      [] t.family = "OpenCitationsUniqueDOI" ->
            [s |-> Task("OpenCitationsSourceDOI"), t |-> Task("OpenCitationsTargetDOI")]
      [] t.family = "IndexMappedDOI" ->
            [input |-> DatedTask("IdMappingTable", t.date)]
      [] t.family = "StatsCommonDOI" ->
            [index |-> DatedTask("IndexMappedDOI", t.date),
             oci |-> Task("OpenCitationsUniqueDOI")]
      [] OTHER -> <<>>

\* the tasks requires() returns, for every task
DepsOf == [t \in Tasks |-> {Requires(t)[k] : k \in DOMAIN Requires(t)}]
Deps(t) == DepsOf[t]

\* the tasks reached from a set of tasks in at most n steps of requires()
RECURSIVE Reach(_, _)
Reach(S, n) ==
    IF n = 0 THEN S
    ELSE Reach(S \cup UNION {Deps(t) : t \in S}, n - 1)

\* the transitive dependency set of every task
TransDepsOf == [t \in Tasks |-> Reach(Deps(t), Cardinality(Tasks))]
TransDeps(t) == TransDepsOf[t]

\* no task is its own transitive dependency
Acyclic == \A t \in Tasks : t \notin TransDeps(t)

(***************************************************************************)
(* Output paths.                                                           *)
(***************************************************************************)
\* open_citations_url_hash(): the hex digest of the URL, a different one for
\* a different URL
UrlHash(u) == <<"sha1", u>>

\* the file name path() derives from the parameters of a task
ParamName(t) == IF t.date = NoDate THEN <<"output">> ELSE <<"date", t.date>>

\* output() naming every file after the parameters of the task, as
\* path(ext=...) does, the URL hash forgotten
FingerprintParamOnly(t, u) == ParamName(t)

\* output() naming every file after the URL hash, the date forgotten
FingerprintUrlOnly(t, u) == UrlHash(u)

\* the fingerprint output() names the file after
Fingerprint(t, u) ==
    IF t.family \in UrlFamilies THEN UrlHash(u) ELSE ParamName(t)

\* the extension output() gives the file
Ext(f) ==
    CASE f = "OpenCitationsInboundStats" -> "json"
      [] f = "OpenCitationsUniqueDOI" -> "json.zst"
      [] OTHER -> "tsv.zst"

\* path(): the file of that name in the directory of the task's family
Path(t, filename) == [dir |-> t.family, name |-> filename]

\* output() of the tasks of stats.py, under the dataset URL u
OutputPath(t, u) == Path(t, <<Fingerprint(t, u), Ext(t.family)>>)

\* output() of the upstream producers
ProducerPath(t, u) ==
    IF t.family = "OpenCitationsSingleFile"
    THEN Path(t, <<UrlHash(u), "zst">>)
    ELSE Path(t, <<ParamName(t), "tsv.zst">>)

\* output() of any task
Output(t, u) == IF t \in ProducerTasks THEN ProducerPath(t, u) ELSE OutputPath(t, u)

(***************************************************************************)
(* The shell pipelines of run().                                           *)
(***************************************************************************)
\* the command of OpenCitationsSourceDOI without tr
SourceDOICommandNoTr(input) == Sort(Cut(input, 2))
SourceDOICommand(input) == Sort(TrLower(Cut(input, 2)))
\* the command of OpenCitationsTargetDOI without sort
TargetDOICommandNoSort(input) == TrLower(Cut(input, 3))
TargetDOICommand(input) == Sort(TrLower(Cut(input, 3)))
CitedCountCommand(input) == SortNR(UniqC(input))
InboundStatsCommand(input) == Cut(input, 1)
UniqueDOICommand(s, t) == SortU(Uniq(s) \o Uniq(t))
\* the command of IndexMappedDOI with sort in place of sort -u
IndexMappedDOICommandNoU(input) == Sort(TrLower(Cut(input, 2)))
IndexMappedDOICommand(input) == SortU(TrLower(Cut(input, 2)))
\* the command of StatsCommonDOI with comm -2: the lines of both inputs and
\* the lines of the first alone
StatsCommonDOICommandComm2(index, oci) == index
StatsCommonDOICommand(index, oci) == Comm12(index, oci)

\* what the command of family f writes to {output}, given the lines of the
\* input files under the names of requires()
Command(f, in) ==
    CASE f = "OpenCitationsSourceDOI" -> SourceDOICommand(in.input)
      [] f = "OpenCitationsTargetDOI" -> TargetDOICommand(in.input)
      [] f = "OpenCitationsCitedCount" -> CitedCountCommand(in.input)
      [] f = "OpenCitationsInboundStats" -> InboundStatsCommand(in.input)
      [] f = "OpenCitationsUniqueDOI" -> UniqueDOICommand(in.s, in.t)
      [] f = "IndexMappedDOI" -> IndexMappedDOICommand(in.input)
      [] f = "StatsCommonDOI" -> StatsCommonDOICommand(in.index, in.oci)

\* run() going on whether shellout() returned or raised
AfterShelloutIgnoreError(f, ok) ==
    IF f = "OpenCitationsInboundStats" THEN "read_csv" ELSE "move"

\* the statement run() goes on to when shellout() returns (ok) or raises
AfterShellout(f, ok) ==
    IF ~ok THEN "raise"
    ELSE IF f = "OpenCitationsInboundStats" THEN "read_csv"
    ELSE "move"

(***************************************************************************)
(* The data of the upstream producers.                                     *)
(***************************************************************************)
\* the citation dataset served at each URL: rows <<edge id, source DOI,
\* target DOI>>, unsorted, in mixed case, with DOIs that repeat after case
\* folding
Dataset(u) ==
    IF u = "u1" THEN << <<1, 2, 1>>, <<2, 3, 1>>, <<3, 1, 4>> >>
    ELSE << <<1, 4, 2>>, <<2, 1, 2>> >>

\* the identifier mapping of each date: rows <<catalog id, DOI>>
Mapping(d) ==
    IF d = "2022-02-02" THEN << <<1, 4>>, <<2, 2>>, <<3, 1>> >>
    ELSE << <<1, 2>>, <<2, 2>> >>

(***************************************************************************)
(* State.                                                                  *)
(***************************************************************************)
VARIABLES
    url,          \* the dataset URL of the configuration of the request
    phase,        \* "idle" between requests, "active" during one
    terminal,     \* the task requested
    status,       \* per task: NONE, PENDING, RUNNING, DONE, FAILED, BLOCKED
    pc,           \* per task: the statement its run() is at
    fs,           \* the files: path -> [lines, partial, by, from]
    alias,        \* per family: the path its "current" symlink points at
    execs,        \* per task and URL: external processes started by run()
    latest,       \* per family: the output path published last
    returned,     \* <<task, URL>> whose run() has returned without an error
    started,      \* the tasks whose run() was started in this request
    firstFailed,  \* the first task that failed in this request
    exit,         \* per task: the exit of its command in this request
    nreq          \* requests made

vars ==
    <<url, phase, terminal, status, pc, fs, alias, execs, latest,
      returned, started, firstFailed, exit, nreq>>

NoTask == Task("none")
NoPath == [dir |-> "none", name |-> <<>>]

Exists(p) == p \in DOMAIN fs
\* the files with the file at p replaced
Write(files, p, file) ==
    [q \in DOMAIN files \cup {p} |-> IF q = p THEN file ELSE files[q]]
\* the files without the file at p
Remove(files, p) == [q \in DOMAIN files \ {p} |-> files[q]]
\* os.rename: the file at src becomes the file at dst, in one step
Rename(files, src, dst) == Remove(Write(files, dst, files[src]), src)

\* the lines a command reads from a path: nothing from a missing file
ReadLines(p) == IF Exists(p) THEN fs[p].lines ELSE <<>>
ReadFrom(p) == IF Exists(p) THEN fs[p].from ELSE {}

\* self.input(): the output paths of the tasks requires() returns
Input(t) == [k \in DOMAIN Requires(t) |-> Output(Requires(t)[k], url)]
InputLines(t) == [k \in DOMAIN Requires(t) |-> ReadLines(Input(t)[k])]
InputFrom(t) == UNION {ReadFrom(Input(t)[k]) : k \in DOMAIN Requires(t)}
InputsExist(t) == \A k \in DOMAIN Requires(t) : Exists(Input(t)[k])

\* the families whose command reads its inputs through process substitution,
\* where a failing reader does not change the exit status of the command
SubstFamilies == {"OpenCitationsUniqueDOI", "StatsCommonDOI"}

\* run() moving the scratch file to a name with another extension than
\* output() gives
MoveTargetOtherExt(t) == Path(t, <<Fingerprint(t, url), "tsv">>)

\* the path run() moves the scratch file to: self.output().path
MoveTarget(t) == OutputPath(t, url)

\* run() handing shellout() its own output path for {output}
ScratchAtOutput(t) == OutputPath(t, url)

\* the file the command writes {output} to: run() names none, so it is the
\* private scratch file shellout() creates
ScratchPath(t) == [dir |-> "tmp", name |-> <<"gluish", t>>]

\* the tasks of a request: the requested task and its transitive dependencies
Sched(t) == {t} \cup TransDeps(t)

Running == {t \in Tasks : status[t] = "RUNNING"}
Terminal(s) == s \in {"DONE", "FAILED", "BLOCKED"}

TypeOK ==
    /\ url \in Urls \cup {NoUrl}
    /\ phase \in {"idle", "active"}
    /\ status \in [Tasks -> {"NONE", "PENDING", "RUNNING", "DONE", "FAILED", "BLOCKED"}]
    /\ nreq \in 0..MaxRequests

Init ==
    /\ url = NoUrl
    /\ phase = "idle"
    /\ terminal = NoTask
    /\ status = [t \in Tasks |-> "NONE"]
    /\ pc = [t \in Tasks |-> "idle"]
    /\ fs = <<>>
    /\ alias = [f \in StatsFamilies |-> NoPath]
    /\ execs = [t \in StatsTasks, u \in Urls |-> 0]
    /\ latest = [f \in StatsFamilies |-> NoPath]
    /\ returned = {}
    /\ started = {}
    /\ firstFailed = NoTask
    /\ exit = [t \in Tasks |-> "none"]
    /\ nreq = 0

(***************************************************************************)
(* The scheduler.                                                          *)
(***************************************************************************)
\* one pass of the scheduler over the pending tasks, with the files as they
\* are under URL u: a task with a failed or blocked dependency is blocked (it
\* is not attempted), a task whose dependencies are all done and whose
\* output exists is skipped (a cache hit)
Pass(st, files, u) ==
    [t \in Tasks |->
        IF st[t] # "PENDING" THEN st[t]
        ELSE IF \E d \in Deps(t) : st[d] \in {"FAILED", "BLOCKED"} THEN "BLOCKED"
        ELSE IF (\A d \in Deps(t) : st[d] = "DONE") /\ Output(t, u) \in DOMAIN files
             THEN "DONE"
        ELSE "PENDING"]

\* the scheduler's passes, repeated until nothing changes
RECURSIVE Settle(_, _, _)
Settle(st, files, u) ==
    IF Pass(st, files, u) = st THEN st ELSE Settle(Pass(st, files, u), files, u)

\* a caller requests task t under the configuration naming URL u
Request(t, u) ==
    /\ phase = "idle"
    /\ nreq < MaxRequests
    /\ Acyclic
    /\ nreq' = nreq + 1
    /\ url' = u
    /\ terminal' = t
    /\ phase' = "active"
    /\ status' = Settle([x \in Tasks |-> IF x \in Sched(t) THEN "PENDING" ELSE "NONE"],
                        fs, u)
    /\ pc' = [x \in Tasks |-> "idle"]
    /\ started' = {}
    /\ firstFailed' = NoTask
    /\ exit' = [x \in Tasks |-> "none"]
    /\ UNCHANGED <<fs, alias, execs, latest, returned>>

DepsDone(t) == \A d \in Deps(t) : status[d] = "DONE"

\* a worker starts run() of a task of stats.py: it calls shellout(), which
\* creates the scratch file and spawns the command writing to it
Start(t) ==
    /\ phase = "active"
    /\ status[t] = "PENDING"
    /\ DepsDone(t)
    /\ ~Exists(Output(t, url))
    /\ Cardinality(Running) < Workers
    /\ status' = [status EXCEPT ![t] = "RUNNING"]
    /\ started' = started \cup {t}
    /\ pc' = [pc EXCEPT ![t] = "shellout"]
    /\ execs' = [execs EXCEPT ![t, url] = @ + 1]
    /\ fs' = Write(fs, ScratchPath(t),
                   [lines |-> <<>>, partial |-> TRUE, by |-> t.family, from |-> {}])
    /\ UNCHANGED <<url, phase, terminal, alias, latest, returned,
                   firstFailed, exit, nreq>>

\* t fails: run() raised
Fail(t) ==
    /\ status' = Settle([status EXCEPT ![t] = "FAILED"], fs, url)
    /\ pc' = [pc EXCEPT ![t] = "idle"]
    /\ firstFailed' = IF firstFailed = NoTask THEN t ELSE firstFailed

(***************************************************************************)
(* run() and on_success().                                                 *)
(***************************************************************************)
\* run() of an upstream producer, start to end: it writes its artifact, or
\* fails
Produce(t, ok) ==
    /\ phase = "active"
    /\ status[t] = "PENDING"
    /\ DepsDone(t)
    /\ ~Exists(Output(t, url))
    /\ Cardinality(Running) < Workers
    /\ started' = started \cup {t}
    /\ IF ok
       THEN /\ fs' = Write(fs, ProducerPath(t, url),
                           IF t.family = "OpenCitationsSingleFile"
                           THEN [lines |-> Dataset(url), partial |-> FALSE,
                                 by |-> t.family, from |-> {<<"url", url>>}]
                           ELSE [lines |-> Mapping(t.date), partial |-> FALSE,
                                 by |-> t.family, from |-> {<<"date", t.date>>}])
            /\ status' = Settle([status EXCEPT ![t] = "DONE"], fs', url)
            /\ pc' = [pc EXCEPT ![t] = "idle"]
            /\ UNCHANGED firstFailed
       ELSE /\ Fail(t)
            /\ UNCHANGED fs
    /\ UNCHANGED <<url, phase, terminal, alias, execs, latest, returned,
                   exit, nreq>>

\* the command of shellout() exits: with status zero (ok) the scratch file
\* holds its whole output; otherwise shellout() raises. A command that reads
\* a missing file through a plain pipeline cannot exit with status zero.
ShelloutExit(t, ok) ==
    /\ phase = "active"
    /\ pc[t] = "shellout"
    /\ ok => (t.family \in SubstFamilies \/ InputsExist(t))
    /\ exit' = [exit EXCEPT ![t] = IF ok THEN "zero" ELSE "nonzero"]
    /\ LET next == AfterShellout(t.family, ok)
           done == [lines |-> Command(t.family, InputLines(t)), partial |-> FALSE,
                    by |-> t.family, from |-> InputFrom(t)]
       IN  IF next = "raise"
           THEN /\ Fail(t)
                /\ fs' = Remove(fs, ScratchPath(t))
           ELSE /\ pc' = [pc EXCEPT ![t] = next]
                /\ fs' = IF ok THEN Write(fs, ScratchPath(t), done) ELSE fs
                /\ UNCHANGED <<status, firstFailed>>
    /\ UNCHANGED <<url, phase, terminal, alias, execs, latest, returned,
                   started, nreq>>

\* run() creating the symlink itself, right after the move
MoveAndLink(t) ==
    /\ phase = "active"
    /\ pc[t] = "move"
    /\ fs' = Rename(fs, ScratchPath(t), OutputPath(t, url))
    /\ latest' = [latest EXCEPT ![t.family] = OutputPath(t, url)]
    /\ returned' = returned \cup {<<t, url>>}
    /\ alias' = [alias EXCEPT ![t.family] = OutputPath(t, url)]
    /\ pc' = [pc EXCEPT ![t] = "on_success"]
    /\ UNCHANGED <<url, phase, terminal, status, execs, started,
                   firstFailed, exit, nreq>>

\* luigi.LocalTarget(output).move(self.output().path), after which run()
\* returns
Move(t) ==
    /\ phase = "active"
    /\ pc[t] = "move"
    /\ fs' = Rename(fs, ScratchPath(t), MoveTarget(t))
    /\ latest' = [latest EXCEPT ![t.family] = MoveTarget(t)]
    /\ returned' = returned \cup {<<t, url>>}
    /\ pc' = [pc EXCEPT ![t] = "on_success"]
    /\ UNCHANGED <<url, phase, terminal, status, alias, execs, started,
                   firstFailed, exit, nreq>>

\* on_success(): create_symlink(name="current"); the task is DONE
OnSuccess(t) ==
    /\ phase = "active"
    /\ pc[t] = "on_success"
    /\ alias' = [alias EXCEPT ![t.family] = Output(t, url)]
    /\ status' = Settle([status EXCEPT ![t] = "DONE"], fs, url)
    /\ pc' = [pc EXCEPT ![t] = "idle"]
    /\ UNCHANGED <<url, phase, terminal, fs, execs, latest, returned,
                   started, firstFailed, exit, nreq>>

\* OpenCitationsInboundStats.run(): read_csv of the scratch file, then the
\* with block, which writes the summary to a temporary file and renames it
\* to the output path when it is left; an error in between (ok false)
\* leaves the output path alone
InboundWrite(t, ok) ==
    /\ phase = "active"
    /\ pc[t] = "read_csv"
    /\ IF ok
       THEN /\ fs' = Write(fs, OutputPath(t, url),
                           [lines |-> <<(<<"describe", fs[ScratchPath(t)].lines>>)>>,
                            partial |-> FALSE, by |-> t.family,
                            from |-> fs[ScratchPath(t)].from])
            /\ latest' = [latest EXCEPT ![t.family] = OutputPath(t, url)]
            /\ pc' = [pc EXCEPT ![t] = "remove"]
            /\ UNCHANGED <<status, firstFailed>>
       ELSE /\ Fail(t)
            /\ UNCHANGED <<fs, latest>>
    /\ UNCHANGED <<url, phase, terminal, alias, execs, returned,
                   started, exit, nreq>>

\* OpenCitationsInboundStats.run(): os.remove(output), where the module
\* never imports os: a NameError, so run() raises and the scratch file stays
InboundRemove(t) ==
    /\ phase = "active"
    /\ pc[t] = "remove"
    /\ Fail(t)
    /\ UNCHANGED <<url, phase, terminal, fs, alias, execs, latest,
                   returned, started, exit, nreq>>

(***************************************************************************)
(* The end of a request.                                                   *)
(***************************************************************************)
AllTerminal == \A t \in Sched(terminal) : Terminal(status[t])

\* the state a request leaves behind: the files, the symlinks and the
\* history; the scheduler's own state is gone with its process
EndRequest ==
    /\ phase' = "idle"
    /\ url' = NoUrl
    /\ terminal' = NoTask
    /\ status' = [t \in Tasks |-> "NONE"]
    /\ pc' = [t \in Tasks |-> "idle"]
    /\ started' = {}
    /\ firstFailed' = NoTask
    /\ exit' = [t \in Tasks |-> "none"]
    /\ UNCHANGED <<alias, execs, latest, returned, nreq>>

\* every task of the request has ended: the run reports and exits
Finish ==
    /\ phase = "active"
    /\ AllTerminal
    /\ EndRequest
    /\ UNCHANGED fs

\* the run is aborted, or the process crashes: the commands in flight are
\* terminated and their scratch files discarded
Abort ==
    /\ phase = "active"
    /\ ~AllTerminal
    /\ EndRequest
    /\ fs' = [q \in DOMAIN fs \ {ScratchPath(t) : t \in Running} |-> fs[q]]

Next ==
    \/ \E t \in StatsTasks, u \in Urls : Request(t, u)
    \/ \E t \in StatsTasks : Start(t)
    \/ \E t \in ProducerTasks, ok \in BOOLEAN : Produce(t, ok)
    \/ \E t \in StatsTasks, ok \in BOOLEAN : ShelloutExit(t, ok)
    \/ \E t \in StatsTasks : Move(t)
    \/ \E t \in StatsTasks : OnSuccess(t)
    \/ \E t \in StatsTasks, ok \in BOOLEAN : InboundWrite(t, ok)
    \/ \E t \in StatsTasks : InboundRemove(t)
    \/ Finish
    \/ Abort

Spec == Init /\ [][Next]_vars

(***************************************************************************)
(* The pipelines over every input: a request in which the upstream         *)
(* producers' artifacts are on storage with any content, and every command *)
(* exits with status zero.                                                 *)
(***************************************************************************)
\* the citation datasets of at most n rows <<edge id, source DOI, target DOI>>
RawDatasets(n) ==
    UNION {{[i \in 1..k |-> <<i, p[i][1], p[i][2]>>] : p \in [1..k -> DOIs \X DOIs]} :
              k \in 0..n}

\* the identifier mappings of at most n rows <<catalog id, DOI>>
RawMappings(n) ==
    UNION {{[i \in 1..k |-> <<i, p[i]>>] : p \in [1..k -> DOIs]} : k \in 0..n}

\* the dataset URL of the configuration of these requests
DataUrl == "u1"

\* the tasks requested over the drawn inputs
DataTerminals ==
    {Task("OpenCitationsCitedCount"), Task("OpenCitationsUniqueDOI")}
        \cup {DatedTask("StatsCommonDOI", d) : d \in Dates}

\* the artifacts of the upstream producers of a request for t under URL u:
\* the dataset ds and, where t has a date, the mapping mp of that date
DataFiles(t, u, ds, mp) ==
    LET single == Write(<<>>, ProducerPath(Task("OpenCitationsSingleFile"), u),
                        [lines |-> ds, partial |-> FALSE,
                         by |-> "OpenCitationsSingleFile", from |-> {<<"url", u>>}])
    IN  IF t.date = NoDate THEN single
        ELSE Write(single, ProducerPath(DatedTask("IdMappingTable", t.date), u),
                   [lines |-> mp, partial |-> FALSE,
                    by |-> "IdMappingTable", from |-> {<<"date", t.date>>}])

\* the state a request for t is in when the scheduler has found the
\* producers' outputs in place
InitData ==
    \E t \in DataTerminals, u \in {DataUrl} :
        \E ds \in RawDatasets(IF t.date = NoDate THEN MaxRows ELSE MaxJoined),
           mp \in (IF t.date = NoDate THEN {<<>>} ELSE RawMappings(MaxMapped)) :
            /\ url = u
            /\ phase = "active"
            /\ terminal = t
            /\ fs = DataFiles(t, u, ds, mp)
            /\ status = Settle([x \in Tasks |-> IF x \in Sched(t) THEN "PENDING" ELSE "NONE"],
                               fs, u)
            /\ pc = [x \in Tasks |-> "idle"]
            /\ alias = [f \in StatsFamilies |-> NoPath]
            /\ execs = [x \in StatsTasks, v \in Urls |-> 0]
            /\ latest = [f \in StatsFamilies |-> NoPath]
            /\ returned = {}
            /\ started = {}
            /\ firstFailed = NoTask
            /\ exit = [x \in Tasks |-> "none"]
            /\ nreq = 1

NextData ==
    \/ \E t \in StatsTasks : Start(t)
    \/ \E t \in StatsTasks : ShelloutExit(t, TRUE)
    \/ \E t \in StatsTasks : Move(t)
    \/ \E t \in StatsTasks : OnSuccess(t)
    \/ Finish

SpecData == InitData /\ [][NextData]_vars

(***************************************************************************)
(* Properties.                                                             *)
(***************************************************************************)
SourceDOI == Task("OpenCitationsSourceDOI")
TargetDOI == Task("OpenCitationsTargetDOI")
CitedCount == Task("OpenCitationsCitedCount")
InboundStats == Task("OpenCitationsInboundStats")
UniqueDOI == Task("OpenCitationsUniqueDOI")
IndexMapped(d) == DatedTask("IndexMappedDOI", d)
StatsCommon(d) == DatedTask("StatsCommonDOI", d)

\* the tasks whose run() is a shellout followed by a move
ShellMoveTasks == StatsTasks \ {InboundStats}

\* d is DONE and its output exists
DoneWithOutput(d) == status[d] = "DONE" /\ Exists(Output(d, url))

\* C1: while run() of a task is in progress, every task its requires()
\* returns is DONE and the output of each exists; in particular for
\* OpenCitationsUniqueDOI (source and target lists) and StatsCommonDOI (the
\* index list of its date and the unique list)
C1_DependenciesDoneBeforeRun ==
    /\ \A t \in Tasks : status[t] = "RUNNING" => \A d \in Deps(t) : DoneWithOutput(d)
    /\ status[UniqueDOI] = "RUNNING" =>
          DoneWithOutput(SourceDOI) /\ DoneWithOutput(TargetDOI)
    /\ \A d \in Dates : status[StatsCommon(d)] = "RUNNING" =>
          DoneWithOutput(IndexMapped(d)) /\ DoneWithOutput(UniqueDOI)

\* C1 witness: run() of StatsCommonDOI is in progress
C1_Witness == \E d \in Dates : pc[StatsCommon(d)] = "shellout"

\* C2 as stated: no task runs its external step more than once under one
\* configuration, however the requests before ended
C2_AtMostOneExecution == \A t \in StatsTasks, u \in Urls : execs[t, u] <= 1

\* C2 amended: once run() of a task has returned, or its output exists, no
\* request starts an external process for that task and configuration again
C2_NoExecutionOncePublished ==
    [][\A t \in StatsTasks, u \in Urls :
          (Exists(OutputPath(t, u)) \/ <<t, u>> \in returned)
              => execs'[t, u] = execs[t, u]]_vars

\* C2 witness: in a second request a task executed once before is DONE
\* without having been started: a cache hit
C2_Witness ==
    /\ nreq = 2
    /\ status[SourceDOI] = "DONE"
    /\ SourceDOI \notin started
    /\ execs[SourceDOI, url] = 1

\* the lines the command of t writes from the inputs it has under URL u
ExpectedLines(t, u) ==
    Command(t.family, [k \in DOMAIN Requires(t) |-> ReadLines(Output(Requires(t)[k], u))])

\* the file at p is the whole result of the step of t
CompleteResult(p, t) ==
    /\ ~fs[p].partial
    /\ fs[p].by = t.family
    /\ \E u \in Urls :
          fs[p].lines = IF t = InboundStats
                        THEN <<(<<"describe", ExpectedLines(t, u)>>)>>
                        ELSE ExpectedLines(t, u)

\* C3: the output path of a task either does not exist or holds the whole
\* result of the task's step, in every state, a crash at any point included
C3_OutputAbsentOrComplete ==
    \A t \in StatsTasks, u \in Urls :
        Exists(OutputPath(t, u)) => CompleteResult(OutputPath(t, u), t)

\* C3 witness: a command is writing its scratch file, still partial, beside
\* a published output
C3_Witness ==
    /\ pc[CitedCount] = "shellout"
    /\ fs[ScratchPath(CitedCount)].partial
    /\ Exists(OutputPath(TargetDOI, url))

\* C4 as stated: an output that exists was published by a run() that
\* returned without an error, and a FAILED task has no output
C4_OutputOnlyFromSuccessfulRun ==
    /\ \A t \in StatsTasks, u \in Urls :
          Exists(OutputPath(t, u)) =>
              \E v \in Urls : <<t, v>> \in returned /\ OutputPath(t, v) = OutputPath(t, u)
    /\ \A t \in StatsTasks : status[t] = "FAILED" => ~Exists(OutputPath(t, url))

\* C5: a shellout-and-move task whose command exited non-zero is FAILED,
\* its run() is over, its scratch file is gone and its output path is as it
\* was when run() began: absent
C5_FailedCommandPublishesNothing ==
    \A t \in ShellMoveTasks :
        exit[t] = "nonzero" =>
            /\ status[t] = "FAILED"
            /\ pc[t] = "idle"
            /\ firstFailed # NoTask
            /\ ~Exists(ScratchPath(t))
            /\ ~Exists(OutputPath(t, url))

\* C5 witness: the command of StatsCommonDOI exited non-zero
C5_Witness ==
    \E d \in Dates : exit[StatsCommon(d)] = "nonzero" /\ status[StatsCommon(d)] = "FAILED"

\* the tasks of the request that transitively depend on t
Dependents(t) == {d \in Sched(terminal) : t \in TransDeps(d)}

\* C6: when run() of a task has failed, every task of the request that
\* transitively depends on it is BLOCKED, was never started, and is not the
\* task reported as failed; so for OpenCitationsTargetDOI and its dependents
C6_DependentsOfFailedBlocked ==
    /\ \A t \in Tasks :
          (status[t] = "FAILED" \/ exit[t] = "nonzero") =>
              \A d \in Dependents(t) :
                  status[d] = "BLOCKED" /\ d \notin started /\ d # firstFailed
    /\ (status[TargetDOI] = "FAILED" \/ exit[TargetDOI] = "nonzero") =>
          \A d \in ({CitedCount, UniqueDOI} \cup {StatsCommon(x) : x \in Dates})
                      \cap Sched(terminal) :
              status[d] = "BLOCKED" /\ d \notin started

\* C6 witness: OpenCitationsTargetDOI failed under a request for
\* StatsCommonDOI
C6_Witness ==
    /\ status[TargetDOI] = "FAILED"
    /\ status[UniqueDOI] = "BLOCKED"
    /\ \E d \in Dates : status[StatsCommon(d)] = "BLOCKED"

\* C7 as stated: with no task running, the symlink of every family that has
\* published an output points at the output published last
C7_AliasIsLatest ==
    Running = {} =>
        \A f \in StatsFamilies : latest[f] # NoPath => alias[f] = latest[f]

\* two distinct tasks have different output paths, whatever the URLs
OutputPathsDistinct ==
    \A t1, t2 \in StatsTasks, u1, u2 \in Urls :
        t1 # t2 => OutputPath(t1, u1) # OutputPath(t2, u2)

\* C8: two distinct tasks (another family, or another date) have different
\* output paths, and two tasks running at once write to different paths
C8_DistinctOutputPaths ==
    /\ OutputPathsDistinct
    /\ \A t1, t2 \in Running :
          t1 # t2 => MoveTarget(t1) # MoveTarget(t2) /\ ScratchPath(t1) # ScratchPath(t2)

\* C8 witness: two tasks are about to move their scratch files at once
C8_Witness == pc[SourceDOI] = "move" /\ pc[TargetDOI] = "move"

\* the logical inputs of a task under URL u: what its upstream producers,
\* reached through requires(), are parameterized by
LogicalInputs(t, u) ==
    {<<"url", u>> : p \in {x \in Sched(t) : x.family = "OpenCitationsSingleFile"}}
        \cup {<<"date", p.date>> : p \in {x \in Sched(t) : x.family = "IdMappingTable"}}

\* C9 as stated: the configuration of a task of the request in progress has
\* the output path of another configuration of its family exactly when the
\* logical inputs of the two are equal
C9_PathIffLogicalInputs ==
    \A t1 \in {t \in StatsTasks : status[t] # "NONE"}, t2 \in StatsTasks, u2 \in Urls :
        t1.family = t2.family =>
            (OutputPath(t1, url) = OutputPath(t2, u2)
                <=> LogicalInputs(t1, url) = LogicalInputs(t2, u2))

\* C10: while the command of StatsCommonDOI runs, its two inputs exist, are
\* the artifacts of IndexMappedDOI of its date and of OpenCitationsUniqueDOI,
\* and each is in ascending byte order with no line twice
C10_MergeInputsSortedUnique ==
    \A d \in Dates :
        pc[StatsCommon(d)] = "shellout" =>
            /\ InputsExist(StatsCommon(d))
            /\ fs[Input(StatsCommon(d)).index].by = "IndexMappedDOI"
            /\ fs[Input(StatsCommon(d)).oci].by = "OpenCitationsUniqueDOI"
            /\ StrictlySorted(InputLines(StatsCommon(d)).index)
            /\ StrictlySorted(InputLines(StatsCommon(d)).oci)

\* C10 witness: the merge runs on inputs of two lines each
C10_Witness ==
    \E d \in Dates :
        /\ pc[StatsCommon(d)] = "shellout"
        /\ Len(InputLines(StatsCommon(d)).index) >= 2
        /\ Len(InputLines(StatsCommon(d)).oci) >= 2

(***************************************************************************)
(* The content of the artifacts.                                           *)
(***************************************************************************)
\* the lines of the citation dataset fetched from URL u
Raw(u) == ReadLines(ProducerPath(Task("OpenCitationsSingleFile"), u))
\* the lines of the artifact of task t under URL u
Artifact(t, u) == ReadLines(OutputPath(t, u))

Elements(lines) == {lines[i] : i \in DOMAIN lines}
Occurrences(x, lines) == Cardinality({i \in DOMAIN lines : lines[i] = x})
Ascending(lines) == \A i \in 1..(Len(lines) - 1) : lines[i] <= lines[i + 1]

\* lines is column k of rows, every DOI in lower case, in ascending order,
\* each as often as it occurs in the column
SortedLowerColumn(lines, rows, k) ==
    /\ Len(lines) = Len(rows)
    /\ Ascending(lines)
    /\ \A x \in DOIs :
          Occurrences(x, lines) = Cardinality({i \in DOMAIN rows : LowerChar(rows[i][k]) = x})

\* C11: whatever the citation dataset, the artifact of OpenCitationsSourceDOI
\* is its second column in lower case, sorted, duplicates kept; the artifact
\* of OpenCitationsTargetDOI is the same of its third column; the artifact of
\* OpenCitationsUniqueDOI is sorted without duplicates and holds exactly the
\* DOIs of the two lists
C11_ListsOfDataset ==
    \A u \in Urls :
        /\ Exists(OutputPath(SourceDOI, u)) =>
              SortedLowerColumn(Artifact(SourceDOI, u), Raw(u), 2)
        /\ Exists(OutputPath(TargetDOI, u)) =>
              SortedLowerColumn(Artifact(TargetDOI, u), Raw(u), 3)
        /\ Exists(OutputPath(UniqueDOI, u)) =>
              /\ StrictlySorted(Artifact(UniqueDOI, u))
              /\ Elements(Artifact(UniqueDOI, u)) =
                    Elements(Artifact(SourceDOI, u)) \cup Elements(Artifact(TargetDOI, u))

\* C11 witness: the unique list of a dataset of three rows with an upper
\* case source DOI and a source DOI that repeats after case folding
C11_Witness ==
    \E u \in Urls :
        /\ Exists(OutputPath(UniqueDOI, u))
        /\ Len(Raw(u)) = 3
        /\ \E i \in DOMAIN Raw(u) : Raw(u)[i][2] \in UpperCodes
        /\ Cardinality(Elements(Artifact(SourceDOI, u))) < Len(Artifact(SourceDOI, u))
        /\ Len(Artifact(UniqueDOI, u)) = 2

\* the lines of the identifier mapping of date d
RawMapping(d) == ReadLines(ProducerPath(DatedTask("IdMappingTable", d), NoUrl))

\* C12: whatever the identifier mapping of date d and the citation dataset,
\* the artifact of IndexMappedDOI(d) is sorted without duplicates and holds
\* exactly the DOIs of the second column of the mapping in lower case; the
\* artifact of StatsCommonDOI(d) is sorted without duplicates and holds
\* exactly the DOIs found in both the artifact of IndexMappedDOI(d) and the
\* artifact of OpenCitationsUniqueDOI
C12_IndexListAndIntersection ==
    \A d \in Dates :
        /\ Exists(OutputPath(IndexMapped(d), NoUrl)) =>
              /\ StrictlySorted(Artifact(IndexMapped(d), NoUrl))
              /\ Elements(Artifact(IndexMapped(d), NoUrl)) =
                    {LowerChar(RawMapping(d)[i][2]) : i \in DOMAIN RawMapping(d)}
        /\ Exists(OutputPath(StatsCommon(d), NoUrl)) =>
              \E u \in Urls :
                  /\ Exists(OutputPath(UniqueDOI, u))
                  /\ StrictlySorted(Artifact(StatsCommon(d), NoUrl))
                  /\ Elements(Artifact(StatsCommon(d), NoUrl)) =
                        Elements(Artifact(IndexMapped(d), NoUrl))
                            \cap Elements(Artifact(UniqueDOI, u))

\* C12 witness: an intersection of one DOI, of an index list of two DOIs
\* and a unique list of one, the mapping holding an upper case DOI
C12_Witness ==
    \E d \in Dates, u \in Urls :
        /\ Exists(OutputPath(StatsCommon(d), NoUrl))
        /\ Len(Artifact(StatsCommon(d), NoUrl)) = 1
        /\ Len(Artifact(IndexMapped(d), NoUrl)) = 2
        /\ Len(Artifact(UniqueDOI, u)) = 1
        /\ \E i \in DOMAIN RawMapping(d) : RawMapping(d)[i][2] \in UpperCodes

\* C13: the artifact of OpenCitationsCitedCount has one row <<count, DOI>>
\* for every distinct DOI of the target list and no other row, the count is
\* the number of lines of the target list equal to the DOI, and no row has a
\* greater count than the row before it
C13_CitedCountRows ==
    \A u \in Urls :
        Exists(OutputPath(CitedCount, u)) =>
            LET rows == Artifact(CitedCount, u)
                targets == Artifact(TargetDOI, u)
            IN  /\ \A x \in Elements(targets) :
                      /\ Cardinality({i \in DOMAIN rows : rows[i][2] = x}) = 1
                      /\ \A i \in DOMAIN rows :
                            rows[i][2] = x => rows[i][1] = Occurrences(x, targets)
                /\ \A i \in DOMAIN rows : rows[i][2] \in Elements(targets)
                /\ \A i \in 1..(Len(rows) - 1) : rows[i][1] >= rows[i + 1][1]

\* C13 witness: the counts of a dataset in which a target DOI occurs twice,
\* in rows that are not adjacent, and another once
C13_Witness ==
    \E u \in Urls :
        /\ Exists(OutputPath(CitedCount, u))
        /\ Len(Raw(u)) = 3
        /\ LowerChar(Raw(u)[1][3]) = LowerChar(Raw(u)[3][3])
        /\ LowerChar(Raw(u)[1][3]) # LowerChar(Raw(u)[2][3])
        /\ Len(Artifact(CitedCount, u)) = 2
        /\ Artifact(CitedCount, u)[1][1] = 2

(***************************************************************************)
(* The symlinks, the states of a task and the outcome of a request.        *)
(***************************************************************************)
\* C14: the "current" symlink of a family changes only in the on_success()
\* step of a task of that family whose run() has returned, and then to the
\* output of that task; no other step (a cache hit, a failing run, the
\* blocking of a task, a step of a task of another family) changes it
C14_AliasOnlyByOnSuccess ==
    [][\A f \in StatsFamilies :
          alias'[f] # alias[f] =>
              \E t \in StatsTasks :
                  /\ t.family = f
                  /\ pc[t] = "on_success"
                  /\ pc'[t] = "idle"
                  /\ <<t, url>> \in returned
                  /\ status'[t] = "DONE"
                  /\ alias'[f] = OutputPath(t, url)]_vars

\* C14 witness: in a second request OpenCitationsSourceDOI is a cache hit,
\* OpenCitationsTargetDOI has failed and OpenCitationsUniqueDOI is blocked:
\* the symlink of the first is the one of the first request, the other two
\* have none
C14_Witness ==
    /\ nreq = 2
    /\ status[SourceDOI] = "DONE"
    /\ SourceDOI \notin started
    /\ alias[SourceDOI.family] = OutputPath(SourceDOI, url)
    /\ status[TargetDOI] = "FAILED"
    /\ status[UniqueDOI] = "BLOCKED"
    /\ alias[TargetDOI.family] = NoPath
    /\ alias[UniqueDOI.family] = NoPath

\* the change of the state of task t in one step is one of: the request
\* begins (PENDING, or DONE at once where the output exists); a cache hit;
\* run() is started, for the first time in the request; run() returns after
\* a command that exited with status zero; run() raises; the task is not
\* attempted because a dependency failed; the request ends
StateStep(t) ==
    status'[t] # status[t] =>
        \/ status'[t] = "NONE" /\ phase' = "idle"
        \/ /\ status[t] = "NONE"
           /\ phase = "idle" /\ phase' = "active"
           /\ \/ status'[t] = "PENDING"
              \/ status'[t] = "DONE" /\ Output(t, url') \in DOMAIN fs
        \/ /\ status[t] = "PENDING" /\ status'[t] = "DONE"
           /\ t \notin started'
           /\ Exists(Output(t, url))
        \/ /\ status[t] = "PENDING" /\ status'[t] = "RUNNING"
           /\ t \notin started
           /\ ~Exists(Output(t, url))
           /\ execs'[t, url] = execs[t, url] + 1
        \/ /\ status[t] = "PENDING" /\ status'[t] = "BLOCKED"
           /\ t \notin started'
           /\ \E d \in TransDeps(t) : status'[d] = "FAILED"
        \/ /\ status[t] = "RUNNING" /\ status'[t] = "DONE"
           /\ <<t, url>> \in returned
           /\ exit[t] = "zero"
        \/ status[t] = "RUNNING" /\ status'[t] = "FAILED"

\* C15: within a request a task of the module goes from PENDING to DONE (a
\* cache hit), from PENDING to RUNNING and on to DONE or to FAILED, or is not
\* attempted; no process is started for a task whose run() was started in
\* the request already, so a FAILED task is not run again; the next request
\* starts from PENDING and from whether the output exists
C15_TaskStateMachine ==
    [][\A t \in StatsTasks :
          /\ StateStep(t)
          /\ t \in started => execs'[t, url] = execs[t, url]]_vars

\* C15 witness: a second request runs a task again whose run of the first
\* request published nothing
C15_Witness ==
    /\ nreq = 2
    /\ status[SourceDOI] = "RUNNING"
    /\ execs[SourceDOI, url] = 2
    /\ ~Exists(OutputPath(SourceDOI, url))

\* every task of the request is DONE and the output requested exists
Success ==
    /\ \A t \in Sched(terminal) : status[t] = "DONE"
    /\ Exists(Output(terminal, url))

\* the request failed, and names the task that failed first
Failure == firstFailed # NoTask /\ status[firstFailed] = "FAILED"

\* no command of the request exited with another status than zero, and
\* pandas read the file the command wrote
CommandsExitedZero ==
    /\ \A t \in ProducerTasks : status[t] # "FAILED"
    /\ \A t \in StatsTasks : exit[t] # "nonzero"
    /\ status[InboundStats] = "FAILED" => Exists(OutputPath(InboundStats, url))

\* C16 as stated: a request that has ended has exactly one of the outcomes
\* success and failure, and success if every command exited with status zero
C16_OutcomeOfRequest ==
    (phase = "active" /\ AllTerminal) =>
        /\ Success # Failure
        /\ CommandsExitedZero => Success

\* the number of tasks a task transitively depends on
Rank(t) == Cardinality(TransDeps(t))

\* C17: no task is its own transitive dependency; the producers require
\* nothing and every task of the module reaches one; every task has a greater
\* rank than the tasks it requires, which is a topological order; and the
\* tasks started in a request were started after the tasks they require
\* were started or found complete
C17_DependencyGraphAcyclic ==
    /\ \A t \in Tasks : t \notin TransDeps(t)
    /\ \A t \in ProducerTasks : Deps(t) = {}
    /\ \A t \in StatsTasks : TransDeps(t) \cap ProducerTasks # {}
    /\ \A t \in Tasks : \A d \in Deps(t) : Rank(d) < Rank(t)
    /\ \A t \in started : \A d \in Deps(t) : d \in started \/ status[d] = "DONE"

\* C17 witness: a request for StatsCommonDOI has run all eight tasks of its
\* dependency set
C17_Witness ==
    /\ phase = "active"
    /\ terminal.family = "StatsCommonDOI"
    /\ started = Sched(terminal)
    /\ \A t \in Sched(terminal) : status[t] = "DONE"

\* C18: the tasks of IndexMappedDOI and IdMappingTable that
\* StatsCommonDOI(d) transitively depends on have date d, and the index
\* file its command reads is the artifact of IndexMappedDOI(d), made from
\* the mapping of date d
C18_DatePropagation ==
    \A d \in Dates :
        /\ \A t \in TransDeps(StatsCommon(d)) :
              t.family \in {"IndexMappedDOI", "IdMappingTable"} => t.date = d
        /\ pc[StatsCommon(d)] = "shellout" =>
              /\ Input(StatsCommon(d)).index = OutputPath(IndexMapped(d), url)
              /\ fs[Input(StatsCommon(d)).index].by = "IndexMappedDOI"
              /\ fs[Input(StatsCommon(d)).index].from = {<<"date", d>>}

\* C18 witness: the command of StatsCommonDOI of one date runs while the
\* artifacts of IndexMappedDOI of both dates exist
C18_Witness ==
    /\ \A d \in Dates : Exists(OutputPath(IndexMapped(d), url))
    /\ \E d \in Dates : pc[StatsCommon(d)] = "shellout" /\ d # Today

\* the tasks whose output is named after the hash of the dataset URL
UrlTasks == {Task(f) : f \in UrlFamilies}

\* C19: an artifact of the five families named after the hash of URL u was
\* computed from the dataset of URL u alone, and a task of these families
\* that is DONE in a request under URL u, by a run or by a cache hit, has
\* such an artifact
C19_CacheProvenance ==
    \A t \in UrlTasks, u \in Urls :
        /\ Exists(OutputPath(t, u)) => fs[OutputPath(t, u)].from = {<<"url", u>>}
        /\ (url = u /\ status[t] = "DONE") =>
              /\ Exists(OutputPath(t, u))
              /\ fs[OutputPath(t, u)].from = {<<"url", u>>}

\* C19 witness: after the URL changed, OpenCitationsUniqueDOI was run again
\* and its artifacts of both URLs exist
C19_Witness ==
    /\ \A u \in Urls : Exists(OutputPath(UniqueDOI, u))
    /\ status[UniqueDOI] = "DONE"
    /\ UniqueDOI \in started
    /\ nreq = 2

====
